---- MODULE Spec2Model ----
(***************************************************************************)
(* A model of the PhishGuard detection pipeline (src/app.py): the three    *)
(* process-wide stores (SAFE_URLS, EMAIL_UNSAFE_PHRASES, model artifacts), *)
(* their loaders, and the email / URL / hybrid classifiers.                *)
(*                                                                         *)
(* Text is a sequence of one-character strings.  Probabilities are exact   *)
(* decimals counted in hundredths (98 stands for 0.98): every constant of  *)
(* the code is a multiple of 0.01, and the IEEE sums the code forms        *)
(* (0.2+0.2, 0.15+0.25, 0.85+0.05*n, ...) compare against the code's       *)
(* thresholds exactly as the decimals do.  A ratio a/b is compared with a  *)
(* threshold by cross-multiplication.  A mean or a half is kept as a       *)
(* fraction [num, den] of hundredths.                                      *)
(***************************************************************************)
EXTENDS Integers, Sequences, FiniteSets, TLC

VARIABLES
    safe_urls_doc,        \* models/safe_urls.json on disk
    keyword_doc,          \* models/email_unsafe.json on disk
    cmaf_files,           \* models/saved_cmaf/: index of the first unreadable artifact, 0 = all readable
    hybrid_files,         \* models/phishing_hybrid_models/
    conformal_file,       \* phishing_hybrid_conformal.pkl
    disk_ver,             \* generation of the artifact files on disk
    SAFE_URLS,
    EMAIL_UNSAFE_DATA,
    EMAIL_UNSAFE_PHRASES,
    word_vectorizer, char_vectorizer, scaler, logreg, svm_calibrated, stacker,
    best_threshold, email_config,
    url_model, url_qhat, url_threshold, phishing_conformal_artifacts,
    url_call_failed,      \* history: the model has raised inside a predict_url request
    req,                  \* the email request in flight, by the line it has reached
    last,                 \* the last completed call and what it returned
    users_collection,     \* db["users"]: the documents in insertion order
    db_calls              \* per client, the create_user / verify_user call in flight

disk == <<safe_urls_doc, keyword_doc, cmaf_files, hybrid_files, conformal_file, disk_ver>>
email_artifacts == <<word_vectorizer, char_vectorizer, scaler, logreg, svm_calibrated,
                     stacker, best_threshold, email_config>>
url_artifacts == <<url_model, url_qhat, url_threshold, phishing_conformal_artifacts>>
stores == <<SAFE_URLS, EMAIL_UNSAFE_DATA, EMAIL_UNSAFE_PHRASES>>
database == <<users_collection, db_calls>>
vars == <<disk, stores, email_artifacts, url_artifacts, url_call_failed, req, last, database>>

---------------------------------------------------------------------------
(* Strings *)

Upper == {"A", "B", "C", "H", "P", "T", "W"}
Digits == {"0", "1", "7", "8"}
Letters == {"a", "b", "c", "d", "e", "h", "p", "s", "t", "u", "w", "x"} \cup Upper

\* str.lower(), one character
LowerChar(c) ==
    CASE c = "A" -> "a" [] c = "B" -> "b" [] c = "C" -> "c" [] c = "H" -> "h"
      [] c = "P" -> "p" [] c = "T" -> "t" [] c = "W" -> "w" [] OTHER -> c

\* str.lower()
Lower(s) == [i \in 1..Len(s) |-> LowerChar(s[i])]

\* str.isdigit() / str.isupper(), one character
IsDigit(c) == c \in Digits
IsUpper(c) == c \in Upper

\* s[i:] with a 1-based i
From(s, i) == SubSeq(s, i, Len(s))

\* s.startswith(p)
StartsWith(s, p) == Len(p) <= Len(s) /\ SubSeq(s, 1, Len(p)) = p

\* s.endswith(p)
EndsWith(s, p) == Len(p) <= Len(s) /\ SubSeq(s, Len(s) - Len(p) + 1, Len(s)) = p

\* p in s
Contains(s, p) == \E i \in 1..(Len(s) - Len(p) + 1) : SubSeq(s, i, i + Len(p) - 1) = p

\* s.find(c) for a set of characters, 1-based; 0 when none occurs
FindAny(s, cs) ==
    IF \E i \in 1..Len(s) : s[i] \in cs
    THEN CHOOSE i \in 1..Len(s) : s[i] \in cs /\ \A j \in 1..(i - 1) : s[j] \notin cs
    ELSE 0

\* whitespace of str.strip()
Space == {" "}

RECURSIVE LStrip(_)
LStrip(s) == IF s # <<>> /\ s[1] \in Space THEN LStrip(Tail(s)) ELSE s

RECURSIVE RStrip(_)
RStrip(s) == IF s # <<>> /\ s[Len(s)] \in Space THEN RStrip(SubSeq(s, 1, Len(s) - 1)) ELSE s

\* str.strip()
Strip(s) == RStrip(LStrip(s))

\* s * n
RECURSIVE Rep(_, _)
Rep(s, n) == IF n <= 0 THEN <<>> ELSE s \o Rep(s, n - 1)

\* number of i in 1..Len(s) with s[i] in cs
CountIn(s, cs) == Cardinality({i \in 1..Len(s) : s[i] \in cs})

---------------------------------------------------------------------------
(* URL helpers *)

SchemeChars == Letters \cup Digits \cup {"+", "-", "."}

\* urllib.parse.urlparse as parse_domain_and_path uses it: [raised, netloc, path]
UrlParse(url0) ==
    LET url1 == LStrip(url0)
        i == FindAny(url1, {":"})
        hasScheme == /\ i > 1
                     /\ url1[1] \in Letters
                     /\ \A j \in 1..(i - 1) : url1[j] \in SchemeChars
        url2 == IF hasScheme THEN From(url1, i + 1) ELSE url1
        hasNetloc == StartsWith(url2, <<"/", "/">>)
        afterSlashes == From(url2, 3)
        d == FindAny(afterSlashes, {"/", "?", "#"})
        netloc == IF ~hasNetloc THEN <<>>
                  ELSE IF d = 0 THEN afterSlashes ELSE SubSeq(afterSlashes, 1, d - 1)
        url3 == IF ~hasNetloc THEN url2
                ELSE IF d = 0 THEN <<>> ELSE From(afterSlashes, d)
        q == FindAny(url3, {"?", "#"})
        path == IF q = 0 THEN url3 ELSE SubSeq(url3, 1, q - 1)
        badBrackets == ("[" \in {netloc[k] : k \in 1..Len(netloc)})
                           # ("]" \in {netloc[k] : k \in 1..Len(netloc)})
    IN [raised |-> hasNetloc /\ badBrackets, netloc |-> netloc, path |-> path]

parse_domain_and_path(url) ==
    LET parsed == UrlParse(url)
        domain == IF parsed.raised THEN url
                  ELSE IF parsed.netloc # <<>> THEN parsed.netloc ELSE parsed.path
    IN Lower(domain)

normalize_domain_for_check(domain) ==
    LET c == FindAny(domain, {":"})
        first == IF c = 0 THEN domain ELSE SubSeq(domain, 1, c - 1)
        d == Strip(Lower(first))
    IN IF StartsWith(d, <<"w", "w", "w", ".">>) THEN From(d, 5) ELSE d

\* the value of SAFE_URLS: a list (or a string, iterated character by character),
\* or None, which `for s in SAFE_URLS` cannot iterate
PyList(items) == [iterable |-> TRUE, items |-> items]
PyNone == [iterable |-> FALSE, items |-> <<>>]

\* line 305 raises TypeError
WhitelistRaises(safe_urls) == ~safe_urls.iterable

\* is_known_safe_domain matching any suffix, without the "." of line 306
is_known_safe_domain_AnySuffix(domain, safe_urls) ==
    LET d == normalize_domain_for_check(domain)
    IN \E k \in 1..Len(safe_urls.items) : EndsWith(d, safe_urls.items[k])

\* lines 303-308, for a SAFE_URLS that can be iterated
is_known_safe_domain(domain, safe_urls) ==
    LET d == normalize_domain_for_check(domain)
    IN \E k \in 1..Len(safe_urls.items) :
           d = safe_urls.items[k] \/ EndsWith(d, <<".">> \o safe_urls.items[k])

---------------------------------------------------------------------------
(* Documents on disk and the stores loaded from them *)

bc == <<"b", ".", "c">>
de == <<"d", ".", "e">>

\* models/safe_urls.json: absent, not JSON, or an object with a trusted_domains list
Whitelist(kind, domains) == [kind |-> kind, trusted_domains |-> domains]

WhitelistDocs ==
    { Whitelist("missing", <<>>), Whitelist("malformed", <<>>),
      Whitelist("json", <<>>), Whitelist("json", <<bc>>), Whitelist("json", <<de, bc>>) }

\* JSON of another shape: a list at the top level, {"trusted_domains": null},
\* {"trusted_domains": "b.c"}
WhitelistNotObject == Whitelist("not_object", <<>>)
WhitelistNull == Whitelist("null", <<>>)
WhitelistString == Whitelist("string", bc)
WhitelistShapes == {WhitelistNotObject, WhitelistNull, WhitelistString}

\* module level, lines 38-51: SAFE_URLS after the import
LoadSafeUrls(doc) ==
    CASE doc.kind = "json" -> PyList(doc.trusted_domains)
      [] doc.kind = "null" -> PyNone
      [] doc.kind = "string" ->
             PyList([k \in 1..Len(doc.trusted_domains) |-> <<doc.trusted_domains[k]>>])
      [] OTHER -> PyList(<<>>)

\* one entry of a JSON list: a string or something else (a number)
Str(s) == [str |-> TRUE, s |-> s]
NonStr == [str |-> FALSE, s |-> <<>>]

pw == <<"p", "w">>
ab == <<"a", "b">>
ux == <<"u", "x">>
ed == <<"e", "d">>

\* models/email_unsafe.json: phishing_keywords is an object of lists (or not an
\* object), other_red_flags a list
Keywords(kind, pkIsDict, cats, other) ==
    [kind |-> kind, pk_is_dict |-> pkIsDict, phishing_keywords |-> cats, other_red_flags |-> other]

KwMissing == Keywords("missing", TRUE, <<>>, <<>>)
KwMalformed == Keywords("malformed", TRUE, <<>>, <<>>)
KwEmpty == Keywords("json", TRUE, <<>>, <<>>)
KwTwo == Keywords("json", TRUE, << <<Str(pw)>> >>, <<Str(ab)>>)
KwFour ==
    Keywords("json", TRUE,
             << <<Str(<<" ", "P", "W", " ">>), NonStr, Str(ab)>>, <<Str(ux), Str(<<" ", " ">>)>> >>,
             <<Str(ed), Str(ab)>>)
KwBadShape == Keywords("json", FALSE, <<>>, <<Str(ed)>>)

KeywordDocs == {KwMissing, KwMalformed, KwEmpty, KwTwo, KwFour, KwBadShape}

\* lines 76-77 and 80-81: the phrases one list contributes
PhrasesOf(lst) ==
    { Lower(Strip(lst[i].s)) : i \in {j \in 1..Len(lst) : lst[j].str /\ Strip(lst[j].s) # <<>>} }

\* the value EMAIL_UNSAFE_DATA holds: the parsed document, or {}
NoData == Keywords("empty", TRUE, <<>>, <<>>)

load_email_unsafe_keywords(doc) ==
    IF doc.kind = "json" /\ doc.pk_is_dict
    THEN [data |-> doc,
          phrases |-> UNION {PhrasesOf(doc.phishing_keywords[c]) :
                                 c \in 1..Len(doc.phishing_keywords)}
                      \cup PhrasesOf(doc.other_red_flags)]
    ELSE [data |-> NoData, phrases |-> {}]

---------------------------------------------------------------------------
(* Model artifacts *)

None == [src |-> "none", ver |-> 0]
Loaded(src, v) == [src |-> src, ver |-> v]
DefaultConfig == [src |-> "default", ver |-> 0]

\* `not x` / `x or y` on an artifact
Falsy(x) == x = None
Or(x, y) == IF Falsy(x) THEN y ELSE x

NumCmaf == 8
CmafStates == 0..NumCmaf
HybridStates == {"nodir", "model_bad", "params_bad", "params_nokeys", "ok"}
ConformalStates == {"absent", "bad", "ok"}

\* lines 91-103: the k-th joblib.load / json.load of saved_cmaf succeeds and assigns
CmafLoaded(k, fail) == fail = 0 \/ k < fail
CmafAssign(k, old, fail, v) == IF CmafLoaded(k, fail) THEN Loaded("cmaf", v) ELSE old

\* load_models: the globals after the call, from the globals before it and the disk
load_models(old, fail, hyb, conf, v) ==
    LET \* lines 105-116
        model1 == IF hyb \in {"params_bad", "params_nokeys", "ok"}
                  THEN Loaded("hybrid", v) ELSE old.url_model
        qhat1 == IF hyb = "ok" THEN Loaded("hybrid", v)
                 ELSE IF hyb = "params_nokeys" THEN None ELSE old.url_qhat
        thr1 == IF hyb = "ok" THEN Loaded("hybrid", v)
                ELSE IF hyb = "params_nokeys" THEN None ELSE old.url_threshold
        \* lines 118-125
        confOk == conf = "ok"
        \* lines 91-103
        cfg1 == CmafAssign(8, old.email_config, fail, v)
    IN [word_vectorizer |-> CmafAssign(1, old.word_vectorizer, fail, v),
        char_vectorizer |-> CmafAssign(2, old.char_vectorizer, fail, v),
        scaler |-> CmafAssign(3, old.scaler, fail, v),
        logreg |-> CmafAssign(4, old.logreg, fail, v),
        svm_calibrated |-> CmafAssign(5, old.svm_calibrated, fail, v),
        stacker |-> CmafAssign(6, old.stacker, fail, v),
        best_threshold |-> CmafAssign(7, old.best_threshold, fail, v),
        \* lines 127-128
        email_config |-> IF Falsy(cfg1) THEN DefaultConfig ELSE cfg1,
        url_model |-> IF confOk THEN Or(model1, Loaded("conformal", v)) ELSE model1,
        url_qhat |-> IF confOk THEN Or(qhat1, Loaded("conformal", v)) ELSE qhat1,
        url_threshold |-> IF confOk THEN Or(thr1, Loaded("conformal", v)) ELSE thr1,
        phishing_conformal_artifacts |->
            IF confOk THEN Loaded("conformal", v) ELSE old.phishing_conformal_artifacts]

\* lines 56-62: the placeholders before the first load
Placeholders ==
    [word_vectorizer |-> None, char_vectorizer |-> None, scaler |-> None, logreg |-> None,
     svm_calibrated |-> None, stacker |-> None, best_threshold |-> None, email_config |-> None,
     url_model |-> None, url_qhat |-> None, url_threshold |-> None,
     phishing_conformal_artifacts |-> None]

\* the artifact globals as one record
Artifacts ==
    [word_vectorizer |-> word_vectorizer, char_vectorizer |-> char_vectorizer,
     scaler |-> scaler, logreg |-> logreg, svm_calibrated |-> svm_calibrated,
     stacker |-> stacker, best_threshold |-> best_threshold, email_config |-> email_config,
     url_model |-> url_model, url_qhat |-> url_qhat, url_threshold |-> url_threshold,
     phishing_conformal_artifacts |-> phishing_conformal_artifacts]

---------------------------------------------------------------------------
(* Email classifier *)

HttpTok == <<"h", "t", "t", "p", ":", "/", "/">>
HttpsTok == <<"h", "t", "t", "p", "s", ":", "/", "/">>
WwwTok == <<"w", "w", "w", ".">>

\* line 142: len(re.findall(r"http[s]?://|www\.", t))
RECURSIVE CountUrlTokens(_)
CountUrlTokens(s) ==
    IF s = <<>> THEN 0
    ELSE IF StartsWith(s, HttpTok) THEN 1 + CountUrlTokens(From(s, Len(HttpTok) + 1))
    ELSE IF StartsWith(s, HttpsTok) THEN 1 + CountUrlTokens(From(s, Len(HttpsTok) + 1))
    ELSE IF StartsWith(s, WwwTok) THEN 1 + CountUrlTokens(From(s, Len(WwwTok) + 1))
    ELSE CountUrlTokens(Tail(s))

Max(a, b) == IF a >= b THEN a ELSE b
Min(a, b) == IF a <= b THEN a ELSE b

\* a ratio n/d, kept exact
Ratio(n, d) == [num |-> n, den |-> d]

\* r > p/100
RatioAbove(r, p) == r.num * 100 > p * r.den

\* extract_email_meta_features dividing by the length itself, not by max(1, length)
extract_email_meta_features_NoMax(t, phrases) ==
    LET length == Len(t)
    IN [length |-> length,
        digit_ratio |-> Ratio(CountIn(t, Digits), length),
        upper_ratio |-> Ratio(CountIn(t, Upper), length),
        num_exclam |-> CountIn(t, {"!"}),
        num_urls |-> CountUrlTokens(t),
        num_urgent_terms |-> Cardinality({ph \in phrases : Contains(Lower(t), ph)})]

\* lines 132-145, for one text and the phrase set it reads
extract_email_meta_features(t, phrases) ==
    LET length == Len(t)
    IN [length |-> length,
        digit_ratio |-> Ratio(CountIn(t, Digits), Max(1, length)),
        upper_ratio |-> Ratio(CountIn(t, Upper), Max(1, length)),
        num_exclam |-> CountIn(t, {"!"}),
        num_urls |-> CountUrlTokens(t),
        num_urgent_terms |-> Cardinality({ph \in phrases : Contains(Lower(t), ph)})]

\* lines 275-280; the global is read at line 276 and again at line 279
check_email_unsafe_by_rules(text, phrases276, phrases279) ==
    IF phrases276 = {} THEN {}
    ELSE {ph \in phrases279 : Contains(Lower(text), ph)}

DigitRatioMax == 15
UpperRatioMax == 20
ExclamMax == 3
UrlCountMax == 2
DigitWeight == 20
UpperWeight == 20
ExclamWeight == 15
UrlWeight == 25
RuleBase == 85
RuleStep == 5
RuleCap == 98
ScoreMax == 40
PhishingBase == 60
SafeBase == 10

\* lines 241-249
suspicious_score(meta) ==
    (IF RatioAbove(meta.digit_ratio, DigitRatioMax) THEN DigitWeight ELSE 0)
    + (IF RatioAbove(meta.upper_ratio, UpperRatioMax) THEN UpperWeight ELSE 0)
    + (IF meta.num_exclam > ExclamMax THEN ExclamWeight ELSE 0)
    + (IF meta.num_urls > UrlCountMax THEN UrlWeight ELSE 0)

\* RulePath without the cap of line 236
RulePath_NoCap(n) ==
    [probability |-> RuleBase + n * RuleStep, binary_pred |-> 1, label |-> "Phishing Email"]

\* lines 234-238
RulePath(n) ==
    [probability |-> Min(RuleBase + n * RuleStep, RuleCap), binary_pred |-> 1,
     label |-> "Phishing Email"]

\* HeuristicPath with >= for the > of line 251
HeuristicPath_AtLeast(score) ==
    IF score >= ScoreMax
    THEN [probability |-> PhishingBase + score, binary_pred |-> 1, label |-> "Phishing Email"]
    ELSE [probability |-> SafeBase + score, binary_pred |-> 0, label |-> "Safe Email"]

\* lines 251-258
HeuristicPath(score) ==
    IF score > ScoreMax
    THEN [probability |-> PhishingBase + score, binary_pred |-> 1, label |-> "Phishing Email"]
    ELSE [probability |-> SafeBase + score, binary_pred |-> 0, label |-> "Safe Email"]

\* lines 260-273
EmailResult(v, meta, path) ==
    [label |-> v.label, probability |-> v.probability, score |-> v.probability * 10,
     binary_pred |-> v.binary_pred, meta |-> meta, path |-> path]

\* lines 228-273, given the meta features of line 230 and the matches of line 233
EmailVerdict(meta, matched_phrases) ==
    IF matched_phrases # {}
    THEN EmailResult(RulePath(Cardinality(matched_phrases)), meta, "rule")
    ELSE EmailResult(HeuristicPath(suspicious_score(meta)), meta, "heuristic")

\* predict_email_with_model with no reload during the call
predict_email_with_model(text, phrases) ==
    EmailVerdict(extract_email_meta_features(text, phrases),
                 check_email_unsafe_by_rules(text, phrases, phrases))

---------------------------------------------------------------------------
(* URL classifier *)

Neutral == 50
SafeConfidence == 98

\* what url_model.predict_proba does on one call: raises, or a class-1 probability
Raises == [raises |-> TRUE, proba |-> Neutral]
Answers(p) == [raises |-> FALSE, proba |-> p]
ModelOutcomes == {Raises} \cup {Answers(p) : p \in {0, 49, 50, 51, 70, 90, 100}}
NotConsulted == [raises |-> FALSE, proba |-> -1]

\* the same for the links of one email body
LinkOutcomes == {Raises} \cup {Answers(p) : p \in {0, 49, 51, 100}}

\* predict_url_from_features answering binary_pred 0 when no model is loaded
predict_url_from_features_ZeroFallback(model, outcome) ==
    IF Falsy(model)
    THEN [label |-> "Suspicious URL", binary_pred |-> 0, confidence |-> Neutral,
          consulted |-> FALSE, raised |-> FALSE]
    ELSE LET proba == IF outcome.raises THEN Neutral ELSE outcome.proba
         IN IF proba < Neutral
            THEN [label |-> "Suspicious URL", binary_pred |-> -1, confidence |-> proba,
                  consulted |-> TRUE, raised |-> FALSE]
            ELSE [label |-> "Phishing URL", binary_pred |-> 1, confidence |-> proba,
                  consulted |-> TRUE, raised |-> FALSE]

\* predict_url_from_features with <= for the < of line 324
predict_url_from_features_Inclusive(model, outcome) ==
    IF Falsy(model)
    THEN [label |-> "Suspicious URL", binary_pred |-> -1, confidence |-> Neutral,
          consulted |-> FALSE, raised |-> FALSE]
    ELSE LET proba == IF outcome.raises THEN Neutral ELSE outcome.proba
         IN IF proba <= Neutral
            THEN [label |-> "Suspicious URL", binary_pred |-> -1, confidence |-> proba,
                  consulted |-> TRUE, raised |-> FALSE]
            ELSE [label |-> "Phishing URL", binary_pred |-> 1, confidence |-> proba,
                  consulted |-> TRUE, raised |-> FALSE]

\* lines 314-330; raised: an exception leaves the function (the except clause of
\* lines 321-322 catches what predict_proba raises)
predict_url_from_features(model, outcome) ==
    IF Falsy(model)
    THEN [label |-> "Suspicious URL", binary_pred |-> -1, confidence |-> Neutral,
          consulted |-> FALSE, raised |-> FALSE]
    ELSE LET proba == IF outcome.raises THEN Neutral ELSE outcome.proba
         IN IF proba < Neutral
            THEN [label |-> "Suspicious URL", binary_pred |-> -1, confidence |-> proba,
                  consulted |-> TRUE, raised |-> FALSE]
            ELSE [label |-> "Phishing URL", binary_pred |-> 1, confidence |-> proba,
                  consulted |-> TRUE, raised |-> FALSE]

\* predict_url when line 305 raises: the exception leaves predict_url and no result
\* is returned (label, binary_pred and confidence stand for nothing)
UrlRaised(url) ==
    [url |-> url, label |-> "TypeError", binary_pred |-> -2, confidence |-> -1,
     consulted |-> FALSE, raised |-> TRUE]

\* predict_url asking the model before the whitelist
predict_url_ModelFirst(url, safe_urls, model, outcome) ==
    LET domain == parse_domain_and_path(url)
        res == predict_url_from_features(model, outcome)
    IN IF WhitelistRaises(safe_urls) THEN UrlRaised(url)
       ELSE IF is_known_safe_domain(domain, safe_urls) /\ res.binary_pred # 1
       THEN [url |-> url, label |-> "Safe URL", binary_pred |-> 0,
             confidence |-> SafeConfidence, consulted |-> res.consulted, raised |-> FALSE]
       ELSE [url |-> url, label |-> res.label, binary_pred |-> res.binary_pred,
             confidence |-> res.confidence, consulted |-> res.consulted,
             raised |-> res.raised]

\* lines 332-340
predict_url(url, safe_urls, model, outcome) ==
    LET domain == parse_domain_and_path(url)
        res == predict_url_from_features(model, outcome)
    IN IF WhitelistRaises(safe_urls) THEN UrlRaised(url)
       ELSE IF is_known_safe_domain(domain, safe_urls)
       THEN [url |-> url, label |-> "Safe URL", binary_pred |-> 0,
             confidence |-> SafeConfidence, consulted |-> FALSE, raised |-> FALSE]
       ELSE [url |-> url, label |-> res.label, binary_pred |-> res.binary_pred,
             confidence |-> res.confidence, consulted |-> res.consulted,
             raised |-> res.raised]

---------------------------------------------------------------------------
(* Hybrid fuser *)

\* \w and the characters that end a URL, [\s<>"'\)\]]
WordChars == Letters \cup Digits \cup {"_"}
StopChars == Space \cup {"<", ">", "\"", "'", ")", "]"}

\* length of the scheme token (?:https?://|www\.) at the head of s, ignoring case; 0 if none
TokenLen(s) ==
    IF StartsWith(Lower(s), HttpsTok) THEN Len(HttpsTok)
    ELSE IF StartsWith(Lower(s), HttpTok) THEN Len(HttpTok)
    ELSE IF StartsWith(Lower(s), WwwTok) THEN Len(WwwTok)
    ELSE 0

\* length of the longest prefix of s without a stop character
RunLen(s) == LET k == FindAny(s, StopChars) IN IF k = 0 THEN Len(s) ELSE k - 1

\* line 285: URL_REGEX.findall(email_text), scanning from position i
RECURSIVE FindUrls(_, _)
FindUrls(s, i) ==
    IF i > Len(s) THEN <<>>
    ELSE LET boundary == i = 1 \/ s[i - 1] \notin WordChars
             tok == TokenLen(From(s, i))
             run == RunLen(From(s, i + tok))
         IN IF boundary /\ tok > 0 /\ run > 0
            THEN <<SubSeq(s, i, i + tok + run - 1)>> \o FindUrls(s, i + tok + run)
            ELSE FindUrls(s, i + 1)

\* lines 283-287
extract_urls(email_text) ==
    LET hits == FindUrls(email_text, 1)
    IN [k \in 1..Len(hits) |->
           IF StartsWith(Lower(hits[k]), HttpTok) \/ StartsWith(Lower(hits[k]), HttpsTok)
           THEN hits[k] ELSE HttpTok \o hits[k]]

\* lines 342-348; outs[k] is what the model does when asked about the k-th URL
predict_urls_in_text(email_text, safe_urls, model, outs) ==
    LET urls == extract_urls(email_text)
    IN [k \in 1..Len(urls) |-> predict_url(urls[k], safe_urls, model, outs[k])]

RECURSIVE SumConfidence(_)
SumConfidence(rs) == IF rs = <<>> THEN 0 ELSE rs[1].confidence + SumConfidence(Tail(rs))

HybridRuleProba == 98
OverrideProba == 98
HybridRuleScore == 960

\* lines 351-360
HybridEmailBranch(email_text, phrases) ==
    IF check_email_unsafe_by_rules(email_text, phrases, phrases) # {}
    THEN [label |-> "Phishing Email", probability |-> HybridRuleProba,
          score |-> HybridRuleScore, binary_pred |-> 1,
          meta |-> extract_email_meta_features(email_text, phrases), path |-> "hybrid_rule"]
    ELSE predict_email_with_model(email_text, phrases)

\* line 365
AnySafeUrl(url_res_list) == \E k \in 1..Len(url_res_list) : url_res_list[k].label = "Safe URL"

\* Fuse with > for the >= of line 371
Fuse_Strict(email_res, url_res_list) ==
    LET url_proba == IF url_res_list # <<>>
                     THEN Ratio(SumConfidence(url_res_list), Len(url_res_list))
                     ELSE Ratio(Neutral, 1)
        final_proba == Ratio(email_res.probability * url_proba.den + url_proba.num,
                             2 * url_proba.den)
        final_binary_pred == IF final_proba.num > Neutral * final_proba.den THEN 1 ELSE 0
    IN [final_label |-> IF final_binary_pred = 1 THEN "Phishing Content" ELSE "Safe Content",
        final_proba |-> final_proba, final_binary_pred |-> final_binary_pred,
        email_branch |-> email_res, url_branch |-> url_res_list, raised |-> FALSE]

\* lines 369-376
Fuse(email_res, url_res_list) ==
    LET url_proba == IF url_res_list # <<>>
                     THEN Ratio(SumConfidence(url_res_list), Len(url_res_list))
                     ELSE Ratio(Neutral, 1)
        final_proba == Ratio(email_res.probability * url_proba.den + url_proba.num,
                             2 * url_proba.den)
        final_binary_pred == IF final_proba.num >= Neutral * final_proba.den THEN 1 ELSE 0
    IN [final_label |-> IF final_binary_pred = 1 THEN "Phishing Content" ELSE "Safe Content",
        final_proba |-> final_proba, final_binary_pred |-> final_binary_pred,
        email_branch |-> email_res, url_branch |-> url_res_list, raised |-> FALSE]

\* line 362 when a predict_url raises: the exception leaves hybrid_predict and no
\* result is returned (the final fields stand for nothing)
HybridRaised(email_res, url_res_list) ==
    [final_label |-> "TypeError", final_proba |-> Ratio(-1, 1), final_binary_pred |-> -2,
     email_branch |-> email_res, url_branch |-> url_res_list, raised |-> TRUE]

AnyUrlRaised(url_res_list) == \E k \in 1..Len(url_res_list) : url_res_list[k].raised

\* lines 364-376, from the two branches
HybridVerdict(email_res, url_res_list) ==
    IF AnyUrlRaised(url_res_list) THEN HybridRaised(email_res, url_res_list)
    ELSE IF AnySafeUrl(url_res_list)
    THEN [final_label |-> "Safe Content", final_proba |-> Ratio(OverrideProba, 1),
          final_binary_pred |-> 0, email_branch |-> email_res, url_branch |-> url_res_list,
          raised |-> FALSE]
    ELSE Fuse(email_res, url_res_list)

\* hybrid_predict without the override of lines 365-367
hybrid_predict_NoOverride(email_text, phrases, safe_urls, model, outs) ==
    LET email_res == HybridEmailBranch(email_text, phrases)
        url_res_list == predict_urls_in_text(email_text, safe_urls, model, outs)
    IN IF AnyUrlRaised(url_res_list) THEN HybridRaised(email_res, url_res_list)
       ELSE Fuse(email_res, url_res_list)

\* lines 350-376
hybrid_predict(email_text, phrases, safe_urls, model, outs) ==
    HybridVerdict(HybridEmailBranch(email_text, phrases),
                  predict_urls_in_text(email_text, safe_urls, model, outs))

---------------------------------------------------------------------------
(* Explanation generator.  A line is written as the fixed text that opens it. *)

HighAbove == 90
ModerateAbove == 70
UpperRatioNoted == 10
ExclamNoted == 2

\* line 218: result.get("probability", result.get("confidence", result.get("final_proba", 0)))
ConfidenceOf(result) ==
    IF "probability" \in DOMAIN result THEN Ratio(result.probability, 1)
    ELSE IF "confidence" \in DOMAIN result THEN Ratio(result.confidence, 1)
    ELSE IF "final_proba" \in DOMAIN result THEN result.final_proba
    ELSE Ratio(0, 1)

\* the tier with >= for the > of lines 219 and 221
ConfidenceTier_AtLeast(confidence) ==
    IF confidence.num >= HighAbove * confidence.den THEN "High Confidence"
    ELSE IF confidence.num >= ModerateAbove * confidence.den THEN "Moderate Confidence"
    ELSE "Lower Confidence"

\* lines 219-224
ConfidenceTier(confidence) ==
    IF confidence.num > HighAbove * confidence.den THEN "High Confidence"
    ELSE IF confidence.num > ModerateAbove * confidence.den THEN "Moderate Confidence"
    ELSE "Lower Confidence"

\* one line, if its condition holds
LineIf(cond, line) == IF cond THEN <<line>> ELSE <<>>

\* lines 151-173; meta_features is result["meta"] (line 444), a non-empty dict
ExplainEmail(result) ==
    IF result.binary_pred = 1
    THEN <<"High Risk Detected">>
         \o LineIf(result.meta.num_urgent_terms > 0, "Urgent Language")
         \o LineIf(RatioAbove(result.meta.upper_ratio, UpperRatioNoted),
                   "Excessive Capitalization")
         \o LineIf(result.meta.num_exclam > ExclamNoted, "Excessive Punctuation")
         \o LineIf(result.meta.num_urls > 0, "Suspicious Links")
         \o <<"Recommendation">>
    ELSE <<"Low Risk Assessment", "Analysis", "Note">>

\* lines 175-188
ExplainUrl(result) ==
    IF result.binary_pred = 1
    THEN <<"Malicious URL Detected", "Domain Analysis", "Recommendation">>
    ELSE IF result.binary_pred = -1
    THEN <<"Suspicious URL", "Analysis", "Recommendation">>
    ELSE <<"Safe URL", "Domain Verification", "Note">>

\* lines 190-215
ExplainHybrid(result) ==
    IF result.final_binary_pred = 1
    THEN <<"Comprehensive Threat Analysis">>
         \o LineIf(result.email_branch.binary_pred = 1, "Email Content Risk")
         \o LineIf(\E k \in 1..Len(result.url_branch) : result.url_branch[k].binary_pred = 1,
                   "Malicious Links")
         \o <<"Critical Action Required">>
    ELSE <<"Comprehensive Safety Check">>
         \o LineIf(AnySafeUrl(result.url_branch), "Trusted Domains")
         \o <<"Best Practice">>

\* lines 147-226
generate_ai_explanation(mode, result) ==
    (CASE mode = "email" -> ExplainEmail(result)
       [] mode = "url" -> ExplainUrl(result)
       [] mode = "hybrid" -> ExplainHybrid(result)
       [] OTHER -> <<>>)
    \o <<ConfidenceTier(ConfidenceOf(result))>>

---------------------------------------------------------------------------
(* Inputs *)

MaxSubLabels == 1
MaxUrlTokens == 3
MaxExclam == 4
MaxDigits == 4
MaxUpper == 6
MaxUrlsInText == 2
MaxDiskVer == 2
MaxClients == 2
MaxUsers == 2

HttpUpperTok == <<"H", "T", "T", "P", ":", "/", "/">>
WwwUpperTok == <<"W", "W", "W", ".">>

\* URLs handed to predict_url: scheme, userinfo, www., subdomain labels or a glued
\* prefix, registrable domain, port, path
Urls ==
    { scheme \o user \o www \o prefix \o reg \o port \o path :
        scheme \in {<<>>, HttpTok, HttpUpperTok},
        user \in {<<>>, <<"u", ":", "p", "@">>, bc \o <<":", "p", "@">>},
        www \in {<<>>, WwwTok},
        prefix \in {Rep(<<"s", ".">>, n) : n \in 0..MaxSubLabels} \cup {<<"x">>},
        reg \in {bc, de, <<"B", ".", "C">>, <<"x", ".", "e">>},
        port \in {<<>>, <<":", "8">>},
        path \in {<<>>, <<"/", "a">>} }

\* the words a text may carry, in the order they are added
PhraseWords == << <<"P", "W">>, ab, ux, ed >>

RECURSIVE Words(_)
Words(k) == IF k <= 0 THEN <<>> ELSE Words(k - 1) \o <<" ">> \o PhraseWords[k]

\* an email body: URL tokens, exclamation marks, digits, capitals, phrase words
MkText(tok, nu, ne, nd, na, k) ==
    Rep(tok, nu) \o Rep(<<"!">>, ne) \o Rep(<<"7">>, nd) \o Rep(<<"A">>, na) \o Words(k)

EmailTexts ==
    { MkText(tok, nu, ne, nd, na, k) :
        tok \in {WwwTok, WwwUpperTok, HttpTok}, nu \in 0..MaxUrlTokens, ne \in 0..MaxExclam,
        nd \in 0..MaxDigits, na \in 0..MaxUpper, k \in 0..Len(PhraseWords) }

\* the email bodies of the requests a reload may overlap
RaceTexts ==
    { MkText(WwwTok, nu, 0, 0, 0, k) :
        nu \in {0, MaxUrlTokens}, k \in 0..Len(PhraseWords) }

\* URLs as they occur in an email body
TextUrls ==
    { HttpTok \o bc, WwwTok \o <<"s", ".">> \o bc \o <<"/", "a">>, HttpUpperTok \o <<"x">> \o bc,
      <<"x">> \o WwwTok \o bc }

RECURSIVE UrlSeqs(_)
UrlSeqs(n) ==
    IF n <= 0 THEN {<<>>}
    ELSE UrlSeqs(n - 1) \cup {us \o <<" ">> \o u : us \in UrlSeqs(n - 1), u \in TextUrls}

\* an email body with links in it
HybridTexts ==
    { MkText(<<>>, 0, 0, n, n, k) \o us :
        n \in {0, 2}, k \in {0, 1}, us \in UrlSeqs(MaxUrlsInText) }

---------------------------------------------------------------------------
(* State *)

\* the clients whose sign-up and login requests the server handles at the same time
Clients == 1..MaxClients
Usernames == {"admin", "bob"}
AdminPassword == "ppnp@123"
Passwords == {AdminPassword, "pw1"}

\* a document of the users collection; generate_password_hash(p) is kept as p, which is
\* what check_password_hash compares with; created_at is left out
UserDoc(username, password, admin) ==
    [username |-> username, password_hash |-> password, is_admin |-> admin]

\* find_one({"username": u}): the first matching document in insertion order, or NoDoc
NoDoc == [username |-> ""]
find_one(coll, u) ==
    LET hits == {k \in 1..Len(coll) : coll[k].username = u}
    IN IF hits = {} THEN NoDoc ELSE coll[CHOOSE k \in hits : \A h \in hits : k <= h]

\* update_one({"username": u}, {"$set": {password_hash, is_admin: True}}): the first match
update_one(coll, u, password) ==
    LET hits == {k \in 1..Len(coll) : coll[k].username = u}
    IN IF hits = {} THEN coll
       ELSE [coll EXCEPT ![CHOOSE k \in hits : \A h \in hits : k <= h] =
                 UserDoc(u, password, TRUE)]

NoDbCall == [fn |-> "none"]
\* a call of client c standing before line pc of db.py
DbCall(fn, username, password, pc) ==
    [fn |-> fn, username |-> username, password |-> password, pc |-> pc]
\* a call that has returned value
DbReturned(call, value) ==
    [fn |-> call.fn, username |-> call.username, password |-> call.password,
     pc |-> 0, returned |-> value]

NoCall == [op |-> "none"]
Idle == [pc |-> "idle"]

ArtifactsAre(a) ==
    /\ word_vectorizer = a.word_vectorizer /\ char_vectorizer = a.char_vectorizer
    /\ scaler = a.scaler /\ logreg = a.logreg /\ svm_calibrated = a.svm_calibrated
    /\ stacker = a.stacker /\ best_threshold = a.best_threshold
    /\ email_config = a.email_config /\ url_model = a.url_model /\ url_qhat = a.url_qhat
    /\ url_threshold = a.url_threshold
    /\ phishing_conformal_artifacts = a.phishing_conformal_artifacts

ArtifactsBecome(a) ==
    /\ word_vectorizer' = a.word_vectorizer /\ char_vectorizer' = a.char_vectorizer
    /\ scaler' = a.scaler /\ logreg' = a.logreg /\ svm_calibrated' = a.svm_calibrated
    /\ stacker' = a.stacker /\ best_threshold' = a.best_threshold
    /\ email_config' = a.email_config /\ url_model' = a.url_model /\ url_qhat' = a.url_qhat
    /\ url_threshold' = a.url_threshold
    /\ phishing_conformal_artifacts' = a.phishing_conformal_artifacts

Init ==
    /\ safe_urls_doc \in WhitelistDocs \cup WhitelistShapes
    /\ keyword_doc \in KeywordDocs
    /\ cmaf_files \in CmafStates
    /\ hybrid_files \in HybridStates
    /\ conformal_file \in ConformalStates
    /\ disk_ver = 1
    \* lines 38-51
    /\ SAFE_URLS = LoadSafeUrls(safe_urls_doc)
    \* line 827
    /\ ArtifactsAre(load_models(Placeholders, cmaf_files, hybrid_files, conformal_file, disk_ver))
    \* line 828
    /\ EMAIL_UNSAFE_DATA = load_email_unsafe_keywords(keyword_doc).data
    /\ EMAIL_UNSAFE_PHRASES = load_email_unsafe_keywords(keyword_doc).phrases
    /\ url_call_failed = FALSE
    /\ req = Idle
    /\ last = NoCall
    \* db.py line 18 on a fresh database; no request has come in
    /\ users_collection = <<>>
    /\ db_calls = [c \in Clients |-> NoDbCall]

---------------------------------------------------------------------------
(* Operations *)

\* a predict_url_from_features that drops the model once it has raised
UrlModelAfter_Disable(model, outcome) == IF outcome.raises THEN None ELSE model

\* lines 314-330 assign url_model nowhere: the global after the call
UrlModelAfter(model, outcome) == model

\* /predict, mode url (lines 453-459): predict_url(target); o is what the model does
\* if it is asked
UrlCall(u, o, res) ==
    /\ last' = [op |-> "predict_url", input |-> u, res |-> res, outcome |-> o,
                model_before |-> url_model, failed_before |-> url_call_failed,
                \* line 461
                explanations |-> IF res.raised THEN <<>>
                                 ELSE generate_ai_explanation("url", res)]
    /\ url_model' = IF res.consulted THEN UrlModelAfter(url_model, o) ELSE url_model
    /\ url_call_failed' = (url_call_failed \/ (res.consulted /\ o.raises))

PredictUrl ==
    /\ last = NoCall /\ req = Idle
    /\ \E u \in Urls, o \in ModelOutcomes : UrlCall(u, o, predict_url(u, SAFE_URLS, url_model, o))
    /\ UNCHANGED <<database, disk, stores, email_artifacts, url_qhat, url_threshold,
                   phishing_conformal_artifacts, req>>

\* lines 442-445: the result and its explanations; matched_phrases is what line 233 found
EmailResponse(t, res, matched_phrases) ==
    [op |-> "predict_email", input |-> t, res |-> res,
     matched |-> Cardinality(matched_phrases),
     explanations |-> generate_ai_explanation("email", res)]

\* /predict, mode email (lines 437-442): predict_email_with_model(text), no reload meanwhile
PredictEmail ==
    /\ last = NoCall /\ req = Idle
    /\ \E t \in EmailTexts :
         last' = EmailResponse(t, predict_email_with_model(t, EMAIL_UNSAFE_PHRASES),
                               check_email_unsafe_by_rules(t, EMAIL_UNSAFE_PHRASES,
                                                           EMAIL_UNSAFE_PHRASES))
    /\ UNCHANGED <<database, disk, stores, email_artifacts, url_artifacts, url_call_failed, req>>

\* lines 475-478: the result and its explanations
HybridResponse(t, outs, res) ==
    [op |-> "hybrid_predict", input |-> t, outs |-> outs, res |-> res,
     explanations |-> IF res.raised THEN <<>> ELSE generate_ai_explanation("hybrid", res)]

\* /predict, mode hybrid (lines 470-478): hybrid_predict(text)
PredictHybrid ==
    /\ last = NoCall /\ req = Idle
    /\ \E t \in HybridTexts :
         \E outs \in [1..Len(extract_urls(t)) -> IF Falsy(url_model) THEN {NotConsulted}
                                                   ELSE LinkOutcomes] :
           last' = HybridResponse(t, outs, hybrid_predict(t, EMAIL_UNSAFE_PHRASES, SAFE_URLS,
                                                          url_model, outs))
    /\ UNCHANGED <<database, disk, stores, email_artifacts, url_artifacts, url_call_failed, req>>

\* the response leaves the server
Respond ==
    /\ last # NoCall
    /\ last' = NoCall
    /\ UNCHANGED <<database, disk, stores, email_artifacts, url_artifacts, url_call_failed, req>>

\* /reload_models (lines 819-825): load_models(), then load_email_unsafe_keywords()
ReloadModels ==
    /\ last = NoCall
    /\ ArtifactsBecome(load_models(Artifacts, cmaf_files, hybrid_files, conformal_file, disk_ver))
    /\ EMAIL_UNSAFE_DATA' = load_email_unsafe_keywords(keyword_doc).data
    /\ EMAIL_UNSAFE_PHRASES' = load_email_unsafe_keywords(keyword_doc).phrases
    /\ last' = [op |-> "reload_models"]
    /\ UNCHANGED <<database, disk, SAFE_URLS, url_call_failed, req>>

\* an operator replaces the artifact files
ChangeModelFiles ==
    /\ last = NoCall /\ req = Idle
    /\ disk_ver < MaxDiskVer
    /\ disk_ver' = disk_ver + 1
    /\ cmaf_files' \in CmafStates
    /\ hybrid_files' \in HybridStates
    /\ conformal_file' \in ConformalStates
    /\ UNCHANGED <<database, safe_urls_doc, keyword_doc, stores, email_artifacts, url_artifacts,
                   url_call_failed, req, last>>

\* an operator edits models/safe_urls.json
ChangeWhitelistDoc ==
    /\ last = NoCall /\ req = Idle
    /\ safe_urls_doc' \in WhitelistDocs \ {safe_urls_doc}
    /\ UNCHANGED <<database, keyword_doc, cmaf_files, hybrid_files, conformal_file, disk_ver, stores,
                   email_artifacts, url_artifacts, url_call_failed, req, last>>

\* an operator edits models/email_unsafe.json
ChangeKeywordDoc ==
    /\ last = NoCall /\ req = Idle
    /\ keyword_doc' \in KeywordDocs \ {keyword_doc}
    /\ UNCHANGED <<database, safe_urls_doc, cmaf_files, hybrid_files, conformal_file, disk_ver, stores,
                   email_artifacts, url_artifacts, url_call_failed, req, last>>

---------------------------------------------------------------------------
(* predict_email_with_model line by line, for a reload on another thread *)

\* line 230: the meta features, from the phrase set of that moment
EmailLine230 ==
    /\ req = Idle /\ last = NoCall
    /\ \E t \in RaceTexts :
         req' = [pc |-> "276", text |-> t,
                 meta |-> extract_email_meta_features(t, EMAIL_UNSAFE_PHRASES)]
    /\ UNCHANGED <<database, disk, stores, email_artifacts, url_artifacts, url_call_failed, last>>

\* line 276: if not EMAIL_UNSAFE_PHRASES: return []
EmailLine276 ==
    /\ req.pc = "276"
    /\ req' = IF EMAIL_UNSAFE_PHRASES = {}
              THEN [pc |-> "234", text |-> req.text, meta |-> req.meta, matched |-> {}]
              ELSE [pc |-> "279", text |-> req.text, meta |-> req.meta]
    /\ UNCHANGED <<database, disk, stores, email_artifacts, url_artifacts, url_call_failed, last>>

\* line 279: the comprehension over the phrase set of that moment
EmailLine279 ==
    /\ req.pc = "279"
    /\ req' = [pc |-> "234", text |-> req.text, meta |-> req.meta,
               matched |-> check_email_unsafe_by_rules(req.text, EMAIL_UNSAFE_PHRASES,
                                                       EMAIL_UNSAFE_PHRASES)]
    /\ UNCHANGED <<database, disk, stores, email_artifacts, url_artifacts, url_call_failed, last>>

\* lines 234-273
EmailLine234 ==
    /\ req.pc = "234"
    /\ last' = EmailResponse(req.text, EmailVerdict(req.meta, req.matched), req.matched)
    /\ req' = Idle
    /\ UNCHANGED <<database, disk, stores, email_artifacts, url_artifacts, url_call_failed>>

\* /signup (app.py lines 385-393): create_user(username, password) is entered
Signup(c) ==
    /\ db_calls[c] = NoDbCall /\ Len(users_collection) < MaxUsers
    /\ \E u \in Usernames, p \in Passwords :
         db_calls' = [db_calls EXCEPT ![c] = DbCall("create_user", u, p, 25)]
    /\ UNCHANGED <<disk, stores, email_artifacts, url_artifacts, url_call_failed, req, last,
                   users_collection>>

\* /login (app.py lines 401-406): verify_user(username, password) is entered
Login(c) ==
    /\ db_calls[c] = NoDbCall /\ Len(users_collection) < MaxUsers
    /\ \E u \in Usernames, p \in Passwords :
         db_calls' = [db_calls EXCEPT ![c] = DbCall("verify_user", u, p, 51)]
    /\ UNCHANGED <<disk, stores, email_artifacts, url_artifacts, url_call_failed, req, last,
                   users_collection>>

\* create_user (db.py lines 23-47), one database operation at a time
create_user(c) ==
    LET call == db_calls[c]
        u == call.username
    IN /\ call.fn = "create_user"
       /\ \/ /\ call.pc = 25
             /\ db_calls' = [db_calls EXCEPT ![c] =
                    IF find_one(users_collection, u) # NoDoc THEN DbReturned(call, FALSE)
                    ELSE DbCall(call.fn, u, call.password, 34)]
             /\ UNCHANGED users_collection
          \/ /\ call.pc = 34
             /\ users_collection' =
                    Append(users_collection, UserDoc(u, call.password, u = "admin"))
             /\ db_calls' = [db_calls EXCEPT ![c] =
                    IF u = "admin" THEN DbCall(call.fn, u, call.password, 38)
                    ELSE DbReturned(call, TRUE)]
          \/ /\ call.pc = 38
             /\ db_calls' = [db_calls EXCEPT ![c] =
                    IF find_one(users_collection, "admin") # NoDoc
                    THEN DbCall(call.fn, u, call.password, 42)
                    ELSE DbReturned(call, TRUE)]
             /\ UNCHANGED users_collection
          \/ /\ call.pc = 42
             /\ users_collection' = update_one(users_collection, "admin", AdminPassword)
             /\ db_calls' = [db_calls EXCEPT ![c] = DbReturned(call, TRUE)]
       /\ UNCHANGED <<disk, stores, email_artifacts, url_artifacts, url_call_failed, req, last>>

\* line 59 on the document that line 51 or 55 read
VerifyResult(call, user) ==
    DbReturned(call, user # NoDoc /\ user.password_hash = call.password)

\* verify_user (db.py lines 49-59) outside its call of create_admin_user
verify_user(c) ==
    LET call == db_calls[c]
        user == find_one(users_collection, call.username)
    IN /\ call.fn = "verify_user"
       /\ \/ /\ call.pc = 51
             /\ db_calls' = [db_calls EXCEPT ![c] =
                    IF user = NoDoc /\ call.username = "admin" /\ call.password = AdminPassword
                    THEN DbCall(call.fn, call.username, call.password, 63)
                    ELSE VerifyResult(call, user)]
          \/ /\ call.pc = 55
             /\ db_calls' = [db_calls EXCEPT ![c] = VerifyResult(call, user)]
       /\ UNCHANGED <<disk, stores, email_artifacts, url_artifacts, url_call_failed, req, last,
                      users_collection>>

\* create_admin_user (db.py lines 61-73), called from line 54
create_admin_user(c) ==
    LET call == db_calls[c]
    IN /\ call.fn = "verify_user"
       /\ \/ /\ call.pc = 63
             /\ db_calls' = [db_calls EXCEPT ![c] =
                    DbCall(call.fn, call.username, call.password,
                           IF find_one(users_collection, "admin") = NoDoc THEN 72 ELSE 55)]
             /\ UNCHANGED users_collection
          \/ /\ call.pc = 72
             /\ users_collection' =
                    Append(users_collection, UserDoc("admin", AdminPassword, TRUE))
             /\ db_calls' = [db_calls EXCEPT ![c] =
                    DbCall(call.fn, call.username, call.password, 55)]
       /\ UNCHANGED <<disk, stores, email_artifacts, url_artifacts, url_call_failed, req, last>>

\* the response of /signup or /login leaves the server
DbRespond(c) ==
    /\ db_calls[c] # NoDbCall /\ db_calls[c].pc = 0
    /\ db_calls' = [db_calls EXCEPT ![c] = NoDbCall]
    /\ UNCHANGED <<disk, stores, email_artifacts, url_artifacts, url_call_failed, req, last,
                   users_collection>>

---------------------------------------------------------------------------
(* Specifications *)

OneWhitelist == Whitelist("json", <<bc>>)

\* the URL channel of a running server
InitUrl ==
    /\ Init
    /\ safe_urls_doc \in WhitelistDocs
    /\ keyword_doc = KwTwo /\ cmaf_files = 0
    /\ hybrid_files \in {"nodir", "ok"} /\ conformal_file \in {"absent", "ok"}
NextUrl == PredictUrl \/ Respond
SpecUrl == InitUrl /\ [][NextUrl]_vars

\* the email channel of a running server
InitEmail ==
    /\ Init
    /\ safe_urls_doc = OneWhitelist /\ cmaf_files = 0
    /\ hybrid_files = "nodir" /\ conformal_file = "absent"
NextEmail == PredictEmail \/ Respond
SpecEmail == InitEmail /\ [][NextEmail]_vars

\* the hybrid channel of a running server
InitHybrid ==
    /\ Init
    /\ safe_urls_doc.kind = "json" /\ keyword_doc \in {KwEmpty, KwTwo} /\ cmaf_files = 0
    /\ hybrid_files \in {"nodir", "ok"} /\ conformal_file = "absent"
NextHybrid == PredictHybrid \/ Respond
SpecHybrid == InitHybrid /\ [][NextHybrid]_vars

\* the model artifacts over startup, file changes and reloads
InitModels == Init /\ safe_urls_doc = OneWhitelist /\ keyword_doc = KwTwo
NextModels == ReloadModels \/ ChangeModelFiles \/ Respond
SpecModels == InitModels /\ [][NextModels]_vars

\* the three stores over startup, document changes and reloads
InitReload ==
    /\ Init
    /\ safe_urls_doc \in WhitelistDocs
    /\ cmaf_files \in {0, 3} /\ hybrid_files \in {"nodir", "ok"} /\ conformal_file = "absent"
NextReload == ReloadModels \/ ChangeWhitelistDoc \/ ChangeKeywordDoc \/ Respond
SpecReload == InitReload /\ [][NextReload]_vars

\* an email request with a reload on another thread
InitRace ==
    /\ Init
    /\ safe_urls_doc = OneWhitelist /\ cmaf_files = 0
    /\ hybrid_files = "nodir" /\ conformal_file = "absent"
NextRace ==
    \/ EmailLine230 \/ EmailLine276 \/ EmailLine279 \/ EmailLine234
    \/ ReloadModels \/ ChangeKeywordDoc \/ Respond
SpecRace == InitRace /\ [][NextRace]_vars

\* hybrid requests of a server started on any whitelist and keyword document, with
\* keyword edits and reloads
InitConfig ==
    /\ Init
    /\ cmaf_files = 0 /\ hybrid_files = "nodir" /\ conformal_file = "absent"
NextConfig == PredictHybrid \/ ReloadModels \/ ChangeKeywordDoc \/ Respond
SpecConfig == InitConfig /\ [][NextConfig]_vars

\* the three channels of one running server
InitPredict ==
    /\ Init
    /\ safe_urls_doc = OneWhitelist /\ keyword_doc = KwTwo /\ cmaf_files = 0
    /\ hybrid_files \in {"nodir", "ok"} /\ conformal_file = "absent"
NextPredict == PredictUrl \/ PredictEmail \/ PredictHybrid \/ Respond
SpecPredict == InitPredict /\ [][NextPredict]_vars

\* sign-up and login requests of several clients on a fresh database
InitSignup ==
    /\ Init
    /\ safe_urls_doc = OneWhitelist /\ keyword_doc = KwTwo /\ cmaf_files = 0
    /\ hybrid_files = "nodir" /\ conformal_file = "absent"
NextSignup ==
    \E c \in Clients :
        \/ Signup(c) \/ Login(c) \/ create_user(c) \/ verify_user(c)
        \/ create_admin_user(c) \/ DbRespond(c)
SpecSignup == InitSignup /\ [][NextSignup]_vars

---------------------------------------------------------------------------
(* Claims *)

Res == last.res

\* the URL of the last predict_url call is whitelisted: its parsed, normalized domain
\* equals a trusted entry or ends with "." and a trusted entry
LastUrlWhitelisted ==
    LET d == normalize_domain_for_check(parse_domain_and_path(last.input))
    IN \E k \in 1..Len(SAFE_URLS.items) :
           d = SAFE_URLS.items[k] \/ EndsWith(d, <<".">> \o SAFE_URLS.items[k])

\* C1: predict_url on a URL whose parsed, normalized domain is whitelisted returns
\* label "Safe URL", binary_pred 0 and confidence 0.98 and never consults the model,
\* whether the model is absent, would answer any probability, or would raise.
C1_WhitelistPrecedence ==
    (last.op = "predict_url" /\ LastUrlWhitelisted)
        => /\ Res.label = "Safe URL" /\ Res.binary_pred = 0 /\ Res.confidence = 98
           /\ ~Res.consulted /\ ~Res.raised

\* a subdomain of a trusted entry, with a port, while the loaded model would raise
C1_Witness ==
    /\ last.op = "predict_url" /\ LastUrlWhitelisted
    /\ last.input = HttpTok \o <<"s", ".">> \o bc \o <<":", "8">>
    /\ ~Falsy(last.model_before) /\ last.outcome = Raises
    /\ Res.label = "Safe URL"

\* C2: if the url_branch of hybrid_predict holds a "Safe URL" result, the fused
\* verdict is "Safe Content", 0.98, 0, whatever the email branch and the other URL
\* results say.
C2_HybridOverride ==
    (last.op = "hybrid_predict" /\ AnySafeUrl(Res.url_branch))
        => /\ Res.final_label = "Safe Content"
           /\ Res.final_proba.num = 98 * Res.final_proba.den
           /\ Res.final_binary_pred = 0

\* a phrase match (email branch says phishing), one safe link and one phishing link
C2_Witness ==
    /\ last.op = "hybrid_predict" /\ AnySafeUrl(Res.url_branch)
    /\ Res.email_branch.binary_pred = 1
    /\ \E k \in 1..Len(Res.url_branch) : Res.url_branch[k].label = "Phishing URL"
    /\ Res.final_label = "Safe Content"

\* C3: when the Rule Matcher finds n >= 1 phrases, predict_email_with_model returns
\* binary_pred 1, "Phishing Email" and probability min(0.85 + 0.05 n, 0.98), which
\* lies in [0.85, 0.98].
C3_RulePath ==
    (last.op = "predict_email" /\ last.matched >= 1)
        => /\ Res.binary_pred = 1 /\ Res.label = "Phishing Email"
           /\ Res.probability = Min(85 + 5 * last.matched, 98)
           /\ Res.probability >= 85 /\ Res.probability <= 98

\* three matches: 0.85 + 0.15 is capped at 0.98
C3_Witness ==
    /\ last.op = "predict_email" /\ last.matched = 3 /\ Res.probability = 98

\* C4: every probability, confidence and final_proba the pipeline returns lies in [0, 1].
C4_ProbabilityInUnitInterval ==
    /\ last.op = "predict_email" => (Res.probability >= 0 /\ Res.probability <= 100)
    /\ last.op = "predict_url" => (Res.confidence >= 0 /\ Res.confidence <= 100)
    /\ last.op = "hybrid_predict"
           => (Res.final_proba.num >= 0 /\ Res.final_proba.num <= 100 * Res.final_proba.den)

\* the score of the heuristic path as the claim states it, in hundredths
ClaimedScore(meta) ==
    (IF meta.digit_ratio.num * 100 > 15 * meta.digit_ratio.den THEN 20 ELSE 0)
    + (IF meta.upper_ratio.num * 100 > 20 * meta.upper_ratio.den THEN 20 ELSE 0)
    + (IF meta.num_exclam > 3 THEN 15 ELSE 0)
    + (IF meta.num_urls > 2 THEN 25 ELSE 0)

\* C5: when no phrase matches, the score is the sum of the four strict thresholds;
\* above 0.40 the result is 0.60 + score, 1, "Phishing Email", otherwise 0.10 + score,
\* 0, "Safe Email" (exactly 0.40 is Safe).
C5_HeuristicPath ==
    (last.op = "predict_email" /\ last.matched = 0)
        => IF ClaimedScore(Res.meta) > 40
           THEN /\ Res.probability = 60 + ClaimedScore(Res.meta)
                /\ Res.binary_pred = 1 /\ Res.label = "Phishing Email"
           ELSE /\ Res.probability = 10 + ClaimedScore(Res.meta)
                /\ Res.binary_pred = 0 /\ Res.label = "Safe Email"

\* a score of exactly 0.40 (exclamation marks and links, the ratios at their thresholds)
C5_Witness ==
    /\ last.op = "predict_email" /\ last.matched = 0
    /\ ClaimedScore(Res.meta) = 40 /\ Res.meta.num_exclam > 3
    /\ Res.meta.digit_ratio.num * 100 = 15 * Res.meta.digit_ratio.den
    /\ Res.label = "Safe Email" /\ Res.probability = 50

\* C6: for a URL that is not whitelisted predict_url never answers "Safe URL" or 0;
\* with no model it answers "Suspicious URL", -1, 0.5; with a model that answers p it
\* answers "Suspicious URL", -1 if p < 0.5 and "Phishing URL", 1 otherwise, confidence p.
C6_NeverSilentlySafe ==
    (last.op = "predict_url" /\ ~LastUrlWhitelisted)
        => /\ Res.label # "Safe URL" /\ Res.binary_pred # 0
           /\ Falsy(last.model_before)
                  => (Res.label = "Suspicious URL" /\ Res.binary_pred = -1
                      /\ Res.confidence = 50)
           /\ (~Falsy(last.model_before) /\ ~last.outcome.raises)
                  => /\ Res.confidence = last.outcome.proba
                     /\ IF last.outcome.proba < 50
                        THEN Res.label = "Suspicious URL" /\ Res.binary_pred = -1
                        ELSE Res.label = "Phishing URL" /\ Res.binary_pred = 1

\* a look-alike of a trusted domain, the model answering exactly 0.5
C6_Witness ==
    /\ last.op = "predict_url" /\ ~LastUrlWhitelisted
    /\ last.input = HttpTok \o <<"x">> \o bc
    /\ SAFE_URLS = PyList(<<bc>>)
    /\ ~Falsy(last.model_before) /\ last.outcome = Answers(50)
    /\ Res.label = "Phishing URL"

UrlLabels == {"Safe URL", "Suspicious URL", "Phishing URL"}

\* C7: when the loaded model raises on a URL that is not whitelisted, predict_url
\* still returns a well-formed result with confidence 0.5, no exception leaves it and
\* url_model is what it was; a later call on which the model answers returns the
\* model's probability.
C7_InferenceFailureRecovered ==
    /\ (last.op = "predict_url" /\ Res.consulted /\ last.outcome.raises)
           => /\ ~Res.raised
              /\ Res.confidence = 50 /\ Res.label \in UrlLabels /\ Res.binary_pred \in {-1, 0, 1}
              /\ Res.url = last.input
              /\ url_model = last.model_before /\ ~Falsy(url_model)
    /\ (last.op = "predict_url" /\ last.failed_before /\ ~LastUrlWhitelisted
            /\ ~last.outcome.raises)
           => Res.consulted /\ Res.confidence = last.outcome.proba

\* an earlier request has had the model raise; this one gets the model's 0.49
C7_Witness ==
    /\ last.op = "predict_url" /\ last.failed_before
    /\ Res.consulted /\ last.outcome = Answers(49) /\ Res.confidence = 49

Absent(x) == x \in {None, DefaultConfig}

AllOrNothing(S) ==
    \/ \A x \in S : Absent(x)
    \/ \A x \in S : ~Absent(x) /\ \A y \in S : y.ver = x.ver

\* C8: the artifacts of a channel are loaded all or nothing: in every state either all
\* of a channel's artifacts are absent, or all are present and from the same load.
C8_ArtifactsAllOrNothing ==
    /\ AllOrNothing({word_vectorizer, char_vectorizer, scaler, logreg, svm_calibrated,
                     stacker, best_threshold, email_config})
    /\ AllOrNothing({url_model, url_qhat, url_threshold})

\* C9: after /reload_models the Keyword Store, the Domain Whitelist and the Model
\* Artifacts each hold what their sources hold at that time.
C9_ReloadRereadsAllStores ==
    last.op = "reload_models"
        => /\ SAFE_URLS = LoadSafeUrls(safe_urls_doc)
           /\ EMAIL_UNSAFE_PHRASES = load_email_unsafe_keywords(keyword_doc).phrases
           /\ Artifacts = load_models(Placeholders, cmaf_files, hybrid_files, conformal_file,
                                      disk_ver)

\* C10: an email request that a reload overlaps behaves as if it ran against one
\* snapshot of the phrase set: num_urgent_terms is the number of phrases the Rule
\* Matcher matched in that call, and the rule path is taken iff num_urgent_terms > 0.
C10_SingleSnapshot ==
    last.op = "predict_email"
        => /\ Res.meta.num_urgent_terms = last.matched
           /\ (Res.path = "rule") <=> (Res.meta.num_urgent_terms > 0)

\* a document that is missing, not JSON, or JSON of an unexpected shape
BadWhitelistDoc(doc) == doc.kind # "json"
BadKeywordDoc(doc) == doc.kind # "json" \/ ~doc.pk_is_dict

\* C11: a keyword or whitelist document that is missing, malformed or of an unexpected
\* shape (a null or non-collection value under the expected key) leaves its store
\* empty, at startup and on reload, and every later classify call returns a result,
\* with no phrase matched and no domain whitelisted.
C11_ConfigLoadFallback ==
    /\ (last.op = "reload_models" /\ BadKeywordDoc(keyword_doc))
           => (EMAIL_UNSAFE_PHRASES = {} /\ EMAIL_UNSAFE_DATA = NoData)
    /\ last.op = "hybrid_predict"
           => /\ ~Res.raised
              /\ BadWhitelistDoc(safe_urls_doc)
                     => (SAFE_URLS = PyList(<<>>) /\ ~AnySafeUrl(Res.url_branch))
              /\ EMAIL_UNSAFE_PHRASES = {}
                     => (Res.email_branch.path = "heuristic"
                         /\ Res.email_branch.meta.num_urgent_terms = 0)

\* a ratio is a quotient by a positive number and lies in [0, 1]
InUnitInterval(r) == r.den >= 1 /\ r.num >= 0 /\ r.num <= r.den

\* C12: extract_email_meta_features returns digit_ratio and upper_ratio in [0, 1],
\* each a count divided by max(1, length), and length and the four counts >= 0; for
\* the empty text both ratios are 0 and nothing is divided by zero.
C12_MetaFeatureBounds ==
    last.op = "predict_email"
        => /\ InUnitInterval(Res.meta.digit_ratio) /\ InUnitInterval(Res.meta.upper_ratio)
           /\ Res.meta.length = Len(last.input)
           /\ Res.meta.digit_ratio.den = Max(1, Len(last.input))
           /\ Res.meta.upper_ratio.den = Max(1, Len(last.input))
           /\ Res.meta.length >= 0 /\ Res.meta.num_exclam >= 0
           /\ Res.meta.num_urls >= 0 /\ Res.meta.num_urgent_terms >= 0
           /\ Res.meta.length = 0
                  => (Res.meta.digit_ratio.num = 0 /\ Res.meta.upper_ratio.num = 0)

\* the empty text
C12_Witness ==
    /\ last.op = "predict_email" /\ last.input = <<>>
    /\ Res.meta.length = 0 /\ Res.meta.digit_ratio = Ratio(0, 1)
    /\ Res.meta.upper_ratio = Ratio(0, 1)

\* d is e, or some "." of d is followed by exactly e
DotBoundarySuffix(d, e) == d = e \/ \E i \in 1..Len(d) : d[i] = "." /\ From(d, i + 1) = e

\* C13: a domain is whitelisted iff its normalized form equals a trusted entry or ends
\* with "." and the entry: a subdomain of an entry is matched, a domain that only ends
\* with the entry's characters is not.
C13_DotBoundarySuffix ==
    last.op = "predict_url"
        => LET d == normalize_domain_for_check(parse_domain_and_path(last.input))
           IN (Res.label = "Safe URL")
                  <=> \E k \in 1..Len(SAFE_URLS.items) : DotBoundarySuffix(d, SAFE_URLS.items[k])

\* "xb.c" ends with the characters of the entry "b.c" and is not whitelisted
C13_Witness ==
    /\ last.op = "predict_url" /\ last.input = HttpTok \o <<"x">> \o bc \o <<"/", "a">>
    /\ SAFE_URLS = PyList(<<de, bc>>)
    /\ EndsWith(normalize_domain_for_check(parse_domain_and_path(last.input)), bc)
    /\ Res.label # "Safe URL"

\* C14: when no URL result is "Safe URL", url_proba is the mean of the URL results'
\* confidences (0.5 when there is none), final_proba is (email probability +
\* url_proba) / 2, final_binary_pred is 1 iff final_proba >= 0.5, final_label is
\* "Phishing Content" iff final_binary_pred = 1 and "Safe Content" otherwise, and the
\* two branches are returned as computed.
C14_HybridFusion ==
    (last.op = "hybrid_predict" /\ ~AnySafeUrl(Res.url_branch))
        => LET n == Len(Res.url_branch)
               p == Res.final_proba
               e == Res.email_branch.probability
           IN /\ n = 0 => p.num * 2 = (e + 50) * p.den
              /\ n > 0 => p.num * 2 * n = (e * n + SumConfidence(Res.url_branch)) * p.den
              /\ p.den > 0
              /\ (Res.final_binary_pred = 1) <=> (p.num >= 50 * p.den)
              /\ Res.final_binary_pred \in {0, 1}
              /\ (Res.final_label = "Phishing Content") <=> (Res.final_binary_pred = 1)
              /\ (Res.final_label = "Safe Content") <=> (Res.final_binary_pred = 0)
              /\ Res.email_branch = HybridEmailBranch(last.input, EMAIL_UNSAFE_PHRASES)
              /\ Res.url_branch
                     = predict_urls_in_text(last.input, SAFE_URLS, url_model, last.outs)

\* two links with confidences 0.49 and 1.0 and an email the heuristic calls safe at
\* 0.3: the fused probability is (0.3 + 0.745) / 2, which is phishing
C14_Witness ==
    /\ last.op = "hybrid_predict" /\ ~AnySafeUrl(Res.url_branch)
    /\ Len(Res.url_branch) = 2
    /\ Res.url_branch[1].confidence = 49 /\ Res.url_branch[2].confidence = 100
    /\ Res.email_branch.probability = 30 /\ Res.email_branch.binary_pred = 0
    /\ Res.final_proba.num * 4 = 209 * Res.final_proba.den
    /\ Res.final_label = "Phishing Content"

TierLines == {"High Confidence", "Moderate Confidence", "Lower Confidence"}

\* a call of /predict has returned a result
Classified ==
    \/ last.op = "predict_email"
    \/ last.op \in {"predict_url", "hybrid_predict"} /\ ~Res.raised

\* the confidence value of the last result, in hundredths: probability for an email
\* result, confidence for a URL result, final_proba for a fused one
LastConfidence ==
    IF last.op = "predict_email" THEN Ratio(Res.probability, 1)
    ELSE IF last.op = "predict_url" THEN Ratio(Res.confidence, 1)
    ELSE Res.final_proba

\* the explanations end with a tier line and hold no other
OneTierLineLast ==
    /\ Len(last.explanations) >= 1
    /\ last.explanations[Len(last.explanations)] \in TierLines
    /\ \A k \in 1..(Len(last.explanations) - 1) : last.explanations[k] \notin TierLines

\* C15: in every mode the last string of generate_ai_explanation is the one tier line:
\* High when the confidence value is >= 0.9, Moderate when it is >= 0.7 and below 0.9,
\* Lower otherwise.
C15_ConfidenceTier ==
    Classified
        => /\ OneTierLineLast
           /\ last.explanations[Len(last.explanations)]
                  = (IF LastConfidence.num >= 90 * LastConfidence.den THEN "High Confidence"
                     ELSE IF LastConfidence.num >= 70 * LastConfidence.den
                     THEN "Moderate Confidence"
                     ELSE "Lower Confidence")

\* C15 as amended: High when the confidence value is above 0.9, Moderate when it is
\* above 0.7 and at most 0.9, Lower otherwise (exactly 0.9 is Moderate, exactly 0.7
\* is Lower).
C15_ConfidenceTierStrict ==
    Classified
        => /\ OneTierLineLast
           /\ last.explanations[Len(last.explanations)]
                  = (IF LastConfidence.num > 90 * LastConfidence.den THEN "High Confidence"
                     ELSE IF LastConfidence.num > 70 * LastConfidence.den
                     THEN "Moderate Confidence"
                     ELSE "Lower Confidence")

\* one phrase matched: the probability is exactly 0.9 and the tier is Moderate
C15_Witness ==
    /\ last.op = "predict_email" /\ last.matched = 1 /\ Res.probability = 90
    /\ last.explanations[Len(last.explanations)] = "Moderate Confidence"

\* C16: every Email Classifier result carries score = probability x 10: the results of
\* predict_email_with_model on both paths, and the email_branch hybrid_predict
\* synthesizes with probability 0.98 when a phrase matches.
C16_ScoreIsTenTimesProbability ==
    /\ last.op = "predict_email" => Res.score = Res.probability * 10
    /\ (last.op = "hybrid_predict" /\ ~Res.raised)
           => Res.email_branch.score = Res.email_branch.probability * 10

\* the normalization the claim describes: lower-case, drop the last ":" and what
\* follows it, drop one leading "www."
NormalizedAsClaimed(domain) ==
    LET l == Lower(domain)
        colons == {i \in 1..Len(l) : l[i] = ":"}
        c == IF colons = {} THEN 0 ELSE CHOOSE i \in colons : \A j \in colons : j <= i
        host == IF c = 0 THEN l ELSE SubSeq(l, 1, c - 1)
    IN IF StartsWith(host, WwwTok) THEN From(host, Len(WwwTok) + 1) ELSE host

\* C17: normalize_domain_for_check lower-cases the domain, strips only the text after
\* the last ":" (what precedes the last ":" is kept), then strips one leading "www.",
\* and whitelist membership is decided on that value.
C17_DomainNormalization ==
    last.op = "predict_url"
        => LET domain == parse_domain_and_path(last.input)
           IN /\ normalize_domain_for_check(domain) = NormalizedAsClaimed(domain)
              /\ (Res.label = "Safe URL")
                     <=> \E k \in 1..Len(SAFE_URLS.items) :
                             DotBoundarySuffix(NormalizedAsClaimed(domain), SAFE_URLS.items[k])

\* C18: url_count is the number of non-overlapping occurrences of "http://", "https://"
\* or "www." in the text irrespective of letter case: the text and its lower-cased
\* form have the same url_count and the same contribution to the threshold
\* url_count > 2.
C18_UrlCountCaseInsensitive ==
    last.op = "predict_email"
        => /\ Res.meta.num_urls = CountUrlTokens(Lower(last.input))
           /\ (Res.meta.num_urls > 2) <=> (CountUrlTokens(Lower(last.input)) > 2)

\* label and binary_pred of an email result agree
EmailLabelAgrees(r) ==
    /\ r.label \in {"Phishing Email", "Safe Email"} /\ r.binary_pred \in {0, 1}
    /\ (r.label = "Phishing Email") <=> (r.binary_pred = 1)
    /\ (r.label = "Safe Email") <=> (r.binary_pred = 0)

\* label and binary_pred of a URL result agree
UrlLabelAgrees(r) ==
    /\ r.label \in UrlLabels /\ r.binary_pred \in {-1, 0, 1}
    /\ (r.label = "Safe URL") <=> (r.binary_pred = 0)
    /\ (r.label = "Suspicious URL") <=> (r.binary_pred = -1)
    /\ (r.label = "Phishing URL") <=> (r.binary_pred = 1)

\* C19: in every result of every channel the label and binary_pred agree: "Phishing
\* Email" iff 1 and "Safe Email" iff 0; "Safe URL" iff 0, "Suspicious URL" iff -1,
\* "Phishing URL" iff 1; "Phishing Content" iff 1 and "Safe Content" iff 0; no other
\* label or value is produced.
C19_LabelAgreesWithBinaryPred ==
    /\ last.op = "predict_email" => EmailLabelAgrees(Res)
    /\ (last.op = "predict_url" /\ ~Res.raised) => UrlLabelAgrees(Res)
    /\ (last.op = "hybrid_predict" /\ ~Res.raised)
           => /\ Res.final_label \in {"Phishing Content", "Safe Content"}
              /\ Res.final_binary_pred \in {0, 1}
              /\ (Res.final_label = "Phishing Content") <=> (Res.final_binary_pred = 1)
              /\ (Res.final_label = "Safe Content") <=> (Res.final_binary_pred = 0)
              /\ EmailLabelAgrees(Res.email_branch)
              /\ \A k \in 1..Len(Res.url_branch) : UrlLabelAgrees(Res.url_branch[k])

\* a hybrid call in which the model raises on the first link and answers 0.49 on the
\* second
C19_Witness ==
    /\ last.op = "hybrid_predict" /\ ~Res.raised
    /\ Len(Res.url_branch) = 2 /\ last.outs[1] = Raises
    /\ Res.url_branch[1].label = "Phishing URL" /\ Res.url_branch[1].binary_pred = 1
    /\ Res.url_branch[2].label = "Suspicious URL" /\ Res.url_branch[2].binary_pred = -1
    /\ Res.email_branch.label = "Safe Email" /\ Res.final_label = "Safe Content"

\* C20: for a text from which extract_urls extracts no URL, the fused final_binary_pred
\* equals the email branch's binary_pred, for every email probability, a heuristic
\* score of exactly 0.40 included.
C20_HybridAgreesWithoutUrls ==
    (last.op = "hybrid_predict" /\ extract_urls(last.input) = <<>>)
        => /\ Res.url_branch = <<>>
           /\ Res.final_binary_pred = Res.email_branch.binary_pred

\* C21: usernames are unique under concurrent sign-up: whatever the interleaving of the
\* create_user, verify_user and create_admin_user calls on a username that does not yet
\* exist, the users collection never holds two documents with the same username
C21_UsernamesUnique ==
    \A i, j \in 1..Len(users_collection) :
        users_collection[i].username = users_collection[j].username => i = j

====
